---- MODULE Spec2Model ----
(***************************************************************************)
(* Model of the fix-and-verify pipeline (run_agent.py) and of the metrics  *)
(* aggregation script (extract_metrics.py).                                *)
(*                                                                         *)
(* Texts (test output, model responses) are sequences of lexemes: a lexeme *)
(* is a character ("=", " ", "\n", ",", a digit) or a word that the code   *)
(* only ever treats as a unit ("failed", "passed", "ERROR", "diff", ...).  *)
(* The regular expressions of the code are run by a backtracking matcher   *)
(* that returns its matches in the priority order of Python's re module.   *)
(***************************************************************************)
EXTENDS Integers, Sequences, FiniteSets, TLC

(***************************************************************************)
(* Bounds of the model.                                                    *)
(***************************************************************************)
\* largest test count written in a generated summary line
MaxCount == 2
\* most noise lines in front of the summary line of a generated test output
MaxPrefix == 1
\* most segments of a generated model response
MaxSegs == 4
\* latest reading of the clock, in ticks
MaxClock == 1
\* largest token count a remote call reports
MaxTokens == 1
\* the latest timestamp of a line of an event log, in ticks
MaxStamp == 2
\* the most lines of an event log that the metrics script is given
MaxLines == 2
\* the most pieces of a test output made of loose pieces
MaxPieces == 5

(***************************************************************************)
(* Lexemes and text helpers.                                               *)
(***************************************************************************)
NL == "\n"
SP == " "
Digit == {"0", "1", "2", "3", "4", "5", "6", "7", "8", "9"}
Space == {SP, NL}
Lexeme == Digit \cup Space \cup
          {"=", ",", "failed", "passed", "ERROR", "no", "tests", "ran",
           "collected", "items", "x", "FENCE", "diff", " --git"}

\* An optional value (a Python value that may be None) is a sequence of at
\* most one element: None is the empty one, Some(v) holds v.
None == <<>>
Some(v) == <<v>>
The(o) == o[1]

\* s[i..] starts with needle
MatchAt(s, needle, i) ==
    /\ i + Len(needle) - 1 <= Len(s)
    /\ \A k \in 1..Len(needle) : s[i + k - 1] = needle[k]

\* `needle in s`
Contains(s, needle) == \E i \in 1..(Len(s) + 1) : MatchAt(s, needle, i)

\* s.find(needle): 1-based position of the first occurrence, 0 when there is none
Find(s, needle) ==
    IF Contains(s, needle)
    THEN CHOOSE i \in 1..(Len(s) + 1) :
            /\ MatchAt(s, needle, i)
            /\ \A j \in 1..(i - 1) : ~MatchAt(s, needle, j)
    ELSE 0

\* s.strip(): leading and trailing whitespace removed
Strip(s) ==
    LET keep == {i \in 1..Len(s) : s[i] \notin Space}
    IN  IF keep = {} THEN <<>>
        ELSE LET lo == CHOOSE i \in keep : \A j \in keep : i <= j
                 hi == CHOOSE i \in keep : \A j \in keep : j <= i
             IN  SubSeq(s, lo, hi)

\* s.startswith(prefix)
StartsWith(s, prefix) == MatchAt(s, prefix, 1)

RECURSIVE Flatten(_)
Flatten(parts) ==
    IF parts = <<>> THEN <<>> ELSE Head(parts) \o Flatten(Tail(parts))

\* str(n): the decimal digits of n
DigitOf(d) == CASE d = 0 -> "0" [] d = 1 -> "1" [] d = 2 -> "2" [] d = 3 -> "3"
                [] d = 4 -> "4" [] d = 5 -> "5" [] d = 6 -> "6" [] d = 7 -> "7"
                [] d = 8 -> "8" [] d = 9 -> "9"
RECURSIVE Digits(_)
Digits(n) == IF n < 10 THEN <<DigitOf(n)>>
             ELSE Digits(n \div 10) \o <<DigitOf(n % 10)>>

\* int(ds) of a string of decimal digits
ValueOf(c) == CHOOSE d \in 0..9 : DigitOf(d) = c
RECURSIVE ToInt(_)
ToInt(ds) == IF Len(ds) = 1 THEN ValueOf(ds[1])
             ELSE 10 * ToInt(SubSeq(ds, 1, Len(ds) - 1)) + ValueOf(ds[Len(ds)])

(***************************************************************************)
(* Regular expressions, matched as Python's re does: a backtracking        *)
(* search whose alternatives are tried in priority order (a greedy         *)
(* repetition tries the longest first, a lazy one the shortest, an         *)
(* optional item is tried present before absent).  Run returns the matches *)
(* from one matcher state in that order, so the first is the match re      *)
(* reports.  A matcher state is the position of the next lexeme and the    *)
(* groups captured so far.                                                 *)
(***************************************************************************)
One(cs) == [op |-> "one", cs |-> cs]
Cat(rs) == [op |-> "cat", rs |-> rs]
Star(r) == [op |-> "star", r |-> r]
Lazy(r) == [op |-> "lazy", r |-> r]
Plus(r) == Cat(<<r, Star(r)>>)
Opt(r) == [op |-> "opt", r |-> r]
Group(n, r) == [op |-> "group", n |-> n, r |-> r]
Word(w) == Cat([i \in 1..Len(w) |-> One({w[i]})])

NoGroups == [n \in 1..2 |-> None]

RECURSIVE Run(_, _, _), RunEach(_, _, _), RunCat(_, _, _)
Run(r, s, st) ==
    CASE r.op = "one" ->
            IF st.pos <= Len(s) /\ s[st.pos] \in r.cs
            THEN <<[st EXCEPT !.pos = @ + 1]>> ELSE <<>>
      [] r.op = "cat" -> RunCat(r.rs, s, <<st>>)
      [] r.op = "star" ->
            RunEach(r, s, SelectSeq(Run(r.r, s, st), LAMBDA e : e.pos > st.pos))
                \o <<st>>
      [] r.op = "lazy" ->
            <<st>> \o
            RunEach(r, s, SelectSeq(Run(r.r, s, st), LAMBDA e : e.pos > st.pos))
      [] r.op = "opt" -> Run(r.r, s, st) \o <<st>>
      [] r.op = "group" ->
            LET ends == Run(r.r, s, st)
            IN  [k \in 1..Len(ends) |->
                    [ends[k] EXCEPT !.groups[r.n] =
                                    Some(SubSeq(s, st.pos, ends[k].pos - 1))]]
\* r from each of the states sts, in their order
RunEach(r, s, sts) ==
    IF sts = <<>> THEN <<>>
    ELSE Run(r, s, Head(sts)) \o RunEach(r, s, Tail(sts))
\* the items rs one after the other
RunCat(rs, s, sts) ==
    IF rs = <<>> THEN sts
    ELSE RunCat(Tail(rs), s, RunEach(Head(rs), s, sts))

\* re.search(r, s): the groups (each one optional) of the first match at the
\* leftmost position where r matches, None when it matches nowhere
Search(r, s) ==
    LET from(i) == Run(r, s, [pos |-> i, groups |-> NoGroups])
        starts == {i \in 1..(Len(s) + 1) : from(i) # <<>>}
    IN  IF starts = {} THEN None
        ELSE LET i == CHOOSE i \in starts : \A j \in starts : i <= j
             IN  Some(from(i)[1].groups)

(***************************************************************************)
(* extract_metrics.py: parse_pytest_output                                 *)
(***************************************************************************)
NoTestsRan == <<"no", SP, "tests", SP, "ran">>
Collected0 == <<"collected", SP, "0", SP, "items">>
ErrorMark == <<"ERROR">>

Stats(p, f, e) == [passed |-> p, failed |-> f, error |-> e]

\* faulty variant: only "ERROR" is taken as the sign of a failed setup
SetupFailed_ErrorOnly(output) ==
    Contains(output, ErrorMark) /\ Contains(output, Collected0)
\* faulty variant: only "no tests ran" is taken as the sign of a failed setup
SetupFailed_NoTestsRanOnly(output) ==
    Contains(output, NoTestsRan) /\ Contains(output, Collected0)
\* parse_pytest_output, lines 18-20: the condition of the early return
SetupFailed(content) ==
    /\ Contains(content, NoTestsRan) \/ Contains(content, ErrorMark)
    /\ Contains(content, Collected0)

\* faulty variant: the failed clause is not optional
SummaryRe_FailedRequired ==
    Cat(<<Plus(One({"="})), Plus(One(Space)),
          Cat(<<Group(1, Plus(One(Digit))), Plus(One(Space)),
                One({"failed"}), Opt(One({","}))>>),
          Star(One(Space)),
          Opt(Cat(<<Group(2, Plus(One(Digit))), Plus(One(Space)),
                    One({"passed"}), Opt(One({","}))>>)),
          Star(One(Lexeme \ {NL})), Plus(One({"="}))>>)
\* r"=+\s+(?:(\d+)\s+failed,?)?\s*(?:(\d+)\s+passed,?)?.*=+"
SummaryRe ==
    Cat(<<Plus(One({"="})), Plus(One(Space)),
          Opt(Cat(<<Group(1, Plus(One(Digit))), Plus(One(Space)),
                    One({"failed"}), Opt(One({","}))>>)),
          Star(One(Space)),
          Opt(Cat(<<Group(2, Plus(One(Digit))), Plus(One(Space)),
                    One({"passed"}), Opt(One({","}))>>)),
          Star(One(Lexeme \ {NL})), Plus(One({"="}))>>)

parse_pytest_output(content) ==
    IF SetupFailed(content) THEN Stats(0, 0, TRUE)
    ELSE LET match == Search(SummaryRe, content)
         IN  IF match # None
             THEN LET group == The(match)
                  IN  Stats(IF group[2] # None THEN ToInt(The(group[2])) ELSE 0,
                            IF group[1] # None THEN ToInt(The(group[1])) ELSE 0,
                            FALSE)
             ELSE Stats(0, 0, FALSE)

(***************************************************************************)
(* run_agent.py: extract_patch                                             *)
(***************************************************************************)
\* the three backquotes that open or close a fenced block
Fence == "FENCE"
DiffGit == <<"diff", " --git">>

\* r"```diff\n(.*?)\n```" with re.DOTALL
TaggedRe ==
    Cat(<<One({Fence}), One({"diff"}), One({NL}),
          Group(1, Lazy(One(Lexeme))), One({NL}), One({Fence})>>)

\* r"```\n(diff --git.*?)\n```" with re.DOTALL
UntaggedRe ==
    Cat(<<One({Fence}), One({NL}),
          Group(1, Cat(<<Word(DiffGit), Lazy(One(Lexeme))>>)),
          One({NL}), One({Fence})>>)

\* faulty variant: a bare header is looked for before the fenced blocks
extract_patch_BareFirst(response_text) ==
    LET tagged == Search(TaggedRe, response_text)
        untagged == Search(UntaggedRe, response_text)
    IN  IF Contains(response_text, DiffGit)
        THEN Some(SubSeq(response_text, Find(response_text, DiffGit),
                         Len(response_text)))
        ELSE IF tagged # None THEN The(tagged)[1]
        ELSE IF untagged # None THEN The(untagged)[1]
        ELSE None
extract_patch(text) ==
    LET tagged == Search(TaggedRe, text)
        untagged == Search(UntaggedRe, text)
    IN  IF tagged # None THEN The(tagged)[1]
        ELSE IF untagged # None THEN The(untagged)[1]
        ELSE IF Contains(text, DiffGit)
             THEN Some(SubSeq(text, Find(text, DiffGit), Len(text)))
        ELSE None

(***************************************************************************)
(* run_agent.py: configuration, the event log, commands                    *)
(***************************************************************************)
MODELS == <<"claude-3-5-sonnet-latest", "claude-3-5-haiku-latest">>

\* log_event: the entry appended to agent.log, stamped with the time of the
\* call; a keyword the caller does not pass is absent (None)
Entry(t, event_type, entry_content, model, usage, tool, args) ==
    [timestamp |-> t, type |-> event_type, content |-> entry_content,
     model |-> model, usage |-> usage, tool |-> tool, args |-> args]
\* faulty variant: the log is opened for writing, not for appending
log_event_Overwrites(log, t, event_type, entry_content, model, usage, tool, args) ==
    <<Entry(t, event_type, entry_content, model, usage, tool, args)>>
log_event(log, t, event_type, entry_content, model, usage, tool, args) ==
    Append(log, Entry(t, event_type, entry_content, model, usage, tool, args))

\* the user message of main, which quotes the output of pre-verification
UserMessage(pre_output) == <<"x", NL, NL>> \o pre_output \o <<NL, NL, "x">>

\* What run_command returns and leaves behind.  A command that ran gives its
\* exit status and output and the output is written to the log file; one that
\* could not be run gives -1 and the text of the exception, and no log file
\* is written.
Raised == <<"x">>
Ran(rc, output) == [returncode |-> rc, output |-> output, logged |-> TRUE]
Failed == [returncode |-> -1, output |-> Raised, logged |-> FALSE]

\* exit statuses of an apply command that ran
ExitCodes == {0, 1}

(***************************************************************************)
(* Inputs of the model: test outputs, model responses, token usages.       *)
(***************************************************************************)
EqRun == <<"=", "=">>
Counts == (0..MaxCount) \cup {10 * MaxCount + 2}

\* "== N failed, M passed in 0.12s ==" and its variants
LineFP(n, m) == EqRun \o <<SP>> \o Digits(n) \o <<SP, "failed", ",", SP>>
                \o Digits(m) \o <<SP, "passed", SP, "x", SP>> \o EqRun
LinePF(m, n) == EqRun \o <<SP>> \o Digits(m) \o <<SP, "passed", ",", SP>>
                \o Digits(n) \o <<SP, "failed", SP, "x", SP>> \o EqRun
LineP(m) == EqRun \o <<SP>> \o Digits(m) \o <<SP, "passed", SP, "x", SP>> \o EqRun
LineF(n) == EqRun \o <<SP>> \o Digits(n) \o <<SP, "failed", SP, "x", SP>> \o EqRun
\* "== test session starts =="
Header == EqRun \o <<SP, "x", SP>> \o EqRun

SummaryLines ==
    {LineFP(n, m) : n \in Counts, m \in Counts}
    \cup {LinePF(m, n) : m \in Counts, n \in Counts}
    \cup {LineP(m) : m \in Counts} \cup {LineF(n) : n \in Counts}
NoiseLines == {Header, ErrorMark, NoTestsRan, Collected0, <<"x">>, <<>>}

RECURSIVE Lines(_)
\* the lines ls, each ended by a newline
Lines(ls) == IF ls = <<>> THEN <<>> ELSE Head(ls) \o <<NL>> \o Lines(Tail(ls))

SeqsUpTo(S, n) == UNION {[1..k -> S] : k \in 0..n}

\* test outputs: noise lines, then a summary line or none, then one noise
\* line or none
TestOutputs ==
    {Lines(pre) \o line \o suf :
        pre \in SeqsUpTo(NoiseLines, MaxPrefix),
        line \in SummaryLines \cup {<<>>},
        suf \in {<<>>} \cup {<<NL>> \o l : l \in NoiseLines}}

\* model responses: up to MaxSegs segments
Segments == {<<Fence, "diff", NL>>, <<Fence, NL>>, <<NL, Fence>>, DiffGit,
             <<"x">>, <<"diff">>, <<NL>>, <<SP>>}
ResponseTexts == {Flatten(segs) : segs \in SeqsUpTo(Segments, MaxSegs)}

\* what the test command of a pipeline run may give: failures, a clean pass,
\* a failed setup, an output without summary, or no run at all
TestRuns ==
    {Ran(1, LineFP(3, 5)), Ran(0, LineP(5)), Ran(1, Lines(<<Collected0, ErrorMark>>)),
     Ran(0, <<"x">>), Failed}
\* the model responses a pipeline run draws from
ModelReplies ==
    {<<>>,
     <<"x">>,
     <<"x", NL, Fence, "diff", NL>> \o DiffGit \o <<"x", NL, Fence, NL, "x">>,
     <<Fence, "diff", NL, NL, Fence>>,
     <<"x", NL, Fence, NL>> \o DiffGit \o <<"x", NL, Fence>>,
     <<"x", NL>> \o DiffGit \o <<"x">>,
     <<SP, "diff", SP, "x", NL>>,
     <<"diff", "x">>}
Usages == [input_tokens : 0..MaxTokens, output_tokens : 0..MaxTokens]

VARIABLES
    pc,          \* run_agent.main: the step it is at
    apiKey,      \* ANTHROPIC_API_KEY is set
    taskFile,    \* task.yaml: absent, malformed or valid
    pre_output,  \* main: output of the pre-verification command
    cand,        \* call_claude: index in MODELS of the next candidate
    response,    \* main: what call_claude returned
    patch,       \* main: the patch to apply
    rc_apply,    \* main: exit status of the last apply command
    clock,       \* the time, in ticks
    agentLog,    \* agent.log: the entries appended so far
    preLog,      \* pre_verification.log: None, or its content
    postLog,     \* post_verification.log: None, or its content
    patchFile,   \* changes.patch: None, or its content
    resultFile,  \* result.json: None, or the report
    calls,       \* the remote calls made, in order, each with its outcome
    commands,    \* the commands handed to run_command, in order, with status
    content,     \* input of parse_pytest_output
    parsed,      \* None, or the result of parse_pytest_output(content)
    text,        \* input of extract_patch
    extracted    \* None, or the result of extract_patch(text)

files == <<agentLog, preLog, postLog, patchFile, resultFile>>
agent == <<pc, apiKey, taskFile, pre_output, cand, response, patch, rc_apply,
           clock, calls, commands>>
pure == <<content, parsed, text, extracted>>
vars == <<agent, files, pure>>

\* the times the clock may show after a step that takes time
Later == {t \in clock..MaxClock : t <= clock + 1}

(***************************************************************************)
(* run_agent.py: main, one action per step                                 *)
(***************************************************************************)
\* main, lines 108-126: the key and the task file are required; a task file
\* that cannot be loaded ends the run with an exception
LoadTask ==
    /\ pc = "load"
    /\ pc' = IF apiKey /\ taskFile = "valid" THEN "preverify" ELSE "fatal"
    /\ UNCHANGED <<apiKey, taskFile, pre_output, cand, response, patch, rc_apply,
                   clock, calls, commands, files, pure>>

\* main, lines 128-160: run the tests on the unmodified checkout (the
\* prompts written to prompts.md are read by nothing and are left out)
PreVerify ==
    /\ pc = "preverify"
    /\ \E r \in TestRuns :
        /\ pre_output' = r.output
        /\ preLog' = IF r.logged THEN Some(r.output) ELSE preLog
        /\ commands' = Append(commands, [cmd |-> "pre_test", rc |-> r.returncode])
    /\ pc' = "generate"
    /\ UNCHANGED <<apiKey, taskFile, cand, response, patch, rc_apply, clock, calls,
                   agentLog, postLog, patchFile, resultFile, pure>>

\* faulty variant: a successful call does not end the loop
Returns_OnlyWhenExhausted(ok, i) == i = Len(MODELS)
\* call_claude, lines 67, 86, 91: the loop ends with this iteration, because
\* the call succeeded or because candidate i was the last
Returns(ok, i) == ok \/ i = Len(MODELS)

\* call_claude, lines 67-91: one iteration of the loop over MODELS.  The
\* request is logged, then the call is made; a call that succeeds logs the
\* response and returns its text, one that fails moves on to the next
\* candidate, and the loop returns None after the last.
CallModel ==
    /\ pc = "generate"
    /\ cand <= Len(MODELS)
    /\ LET model == MODELS[cand]
           requested == log_event(agentLog, clock, "request", UserMessage(pre_output),
                                  Some(model), None, None, None)
       IN  \E t \in Later :
            /\ clock' = t
            /\ \/ \E reply \in ModelReplies, usage \in Usages :
                    /\ calls' = Append(calls, [model |-> model, ok |-> TRUE,
                                               text |-> Some(reply), usage |-> Some(usage)])
                    /\ agentLog' = log_event(requested, t, "response", reply,
                                             Some(model), Some(usage), None, None)
                    /\ response' = Some(reply)
                    /\ cand' = IF Returns(TRUE, cand) THEN cand ELSE cand + 1
                    /\ pc' = IF Returns(TRUE, cand) THEN "check" ELSE "generate"
               \/ /\ calls' = Append(calls, [model |-> model, ok |-> FALSE,
                                             text |-> None, usage |-> None])
                  /\ agentLog' = requested
                  /\ response' = None
                  /\ cand' = cand + 1
                  /\ pc' = IF Returns(FALSE, cand) THEN "check" ELSE "generate"
    /\ UNCHANGED <<apiKey, taskFile, pre_output, patch, rc_apply, commands,
                   preLog, postLog, patchFile, resultFile, pure>>

\* `not response`, `not patch`: None and the empty text are both false
Not(r) == r = None \/ The(r) = <<>>

\* faulty variant: a run without a response goes on to post-verification
CheckResponse_GoesOn ==
    /\ pc = "check"
    /\ pc' = IF Not(response) THEN "postverify" ELSE "extract"
    /\ UNCHANGED <<apiKey, taskFile, pre_output, cand, response, patch, rc_apply,
                   clock, calls, commands, files, pure>>
\* main, lines 162-165: no response is fatal
CheckResponse ==
    /\ pc = "check"
    /\ pc' = IF Not(response) THEN "fatal" ELSE "extract"
    /\ UNCHANGED <<apiKey, taskFile, pre_output, cand, response, patch, rc_apply,
                   clock, calls, commands, files, pure>>

\* faulty variant: the whole response must start with the header of a git diff
WholeResponseIsDiff_GitOnly(r) == StartsWith(Strip(r), DiffGit)
\* main, line 172: the whole response is taken as the patch
WholeResponseIsDiff(r) == StartsWith(Strip(r), <<"diff">>)

\* main, lines 168-175: the patch of the response, or the whole response when
\* it starts with diff, or a fatal exit
ExtractPatch ==
    /\ pc = "extract"
    /\ LET found == extract_patch(The(response))
       IN  IF ~Not(found)
           THEN patch' = found /\ pc' = "write"
           ELSE IF WholeResponseIsDiff(The(response))
           THEN patch' = Some(Strip(The(response))) /\ pc' = "write"
           ELSE patch' = found /\ pc' = "fatal"
    /\ UNCHANGED <<apiKey, taskFile, pre_output, cand, response, rc_apply,
                   clock, calls, commands, files, pure>>

\* faulty variant: the tool use is logged but changes.patch is not written
WritePatch_LogOnly ==
    /\ pc = "write"
    /\ \E t \in Later :
        /\ clock' = t
        /\ agentLog' = log_event(agentLog, t, "tool_use", <<"x">>, None, None,
                                 Some("git_apply"),
                                 Some([patch_length |-> Len(The(patch))]))
    /\ pc' = "apply"
    /\ UNCHANGED <<apiKey, taskFile, pre_output, cand, response, patch, rc_apply,
                   calls, commands, preLog, postLog, patchFile, resultFile, pure>>
\* main, lines 177-180: log the tool use, write changes.patch
WritePatch ==
    /\ pc = "write"
    /\ \E t \in Later :
        /\ clock' = t
        /\ agentLog' = log_event(agentLog, t, "tool_use", <<"x">>, None, None,
                                 Some("git_apply"),
                                 Some([patch_length |-> Len(The(patch))]))
    /\ patchFile' = patch
    /\ pc' = "apply"
    /\ UNCHANGED <<apiKey, taskFile, pre_output, cand, response, patch, rc_apply,
                   calls, commands, preLog, postLog, resultFile, pure>>

\* faulty variant: a command that could not be run is not taken as a failure
ApplyFailed_PositiveOnly(rc) == rc > 0
\* main, line 184: the fallback is needed
ApplyFailed(rc) == rc # 0

\* faulty variant: the run is given up when the fallback fails too
AfterFallback_GivesUp(rc) == IF rc # 0 THEN "fatal" ELSE "postverify"
\* main, lines 188-192: the step after the fallback, whatever its status
AfterFallback(rc) == "postverify"

\* main, line 183: git apply
GitApply ==
    /\ pc = "apply"
    /\ \E r \in {Ran(rc, <<"x">>) : rc \in ExitCodes} \cup {Failed} :
        /\ rc_apply' = r.returncode
        /\ commands' = Append(commands, [cmd |-> "git apply", rc |-> r.returncode])
        /\ pc' = IF ApplyFailed(r.returncode) THEN "fallback" ELSE "postverify"
    /\ UNCHANGED <<apiKey, taskFile, pre_output, cand, response, patch, clock, calls,
                   files, pure>>

\* main, lines 184-190: patch -p1, and on to post-verification whatever it gives
PatchP1 ==
    /\ pc = "fallback"
    /\ \E r \in {Ran(rc, <<"x">>) : rc \in ExitCodes} \cup {Failed} :
        /\ rc_apply' = r.returncode
        /\ commands' = Append(commands, [cmd |-> "patch -p1", rc |-> r.returncode])
        /\ pc' = AfterFallback(r.returncode)
    /\ UNCHANGED <<apiKey, taskFile, pre_output, cand, response, patch, clock, calls,
                   files, pure>>

\* main, lines 192-201: run the tests again
PostVerify ==
    /\ pc = "postverify"
    /\ \E r \in TestRuns :
        /\ postLog' = IF r.logged THEN Some(r.output) ELSE postLog
        /\ commands' = Append(commands, [cmd |-> "post_test", rc |-> r.returncode])
    /\ pc' = "done"
    /\ UNCHANGED <<apiKey, taskFile, pre_output, cand, response, patch, rc_apply,
                   clock, calls, agentLog, preLog, patchFile, resultFile, pure>>

(***************************************************************************)
(* extract_metrics.py: main                                                *)
(***************************************************************************)
\* ticks in a second: timestamps are read to the tick
TicksPerSecond == 2

\* d.get(key, 0)
Get(d, key) == IF key \in DOMAIN d THEN d[key] ELSE 0

\* main, lines 33-36: the accumulators before the log is read
Zero ==
    [start_time |-> None, end_time |-> None,
     tokens |-> [input |-> 0, output |-> 0, cache_read |-> 0, cache_write |-> 0],
     tool_usage |-> [read |-> 0, write |-> 0, edit |-> 0, bash |-> 0]]

\* the keys of a usage whose values are not numbers
NotNumbers(usage) == IF "not_numbers" \in DOMAIN usage THEN usage.not_numbers ELSE {}

\* main, lines 52-55: the keys of a usage and the totals they are added to,
\* in the order of the four statements
UsageKeys ==
    <<[key |-> "input_tokens", total |-> "input"],
      [key |-> "output_tokens", total |-> "output"],
      [key |-> "cache_read_input_tokens", total |-> "cache_read"],
      [key |-> "cache_creation_input_tokens", total |-> "cache_write"]>>

RECURSIVE AddUsage(_, _, _)
\* main, lines 52-55, from statement i on: a value that is not a number
\* raises, which leaves the totals of the statements before it added
AddUsage(tokens, usage, i) ==
    IF i > Len(UsageKeys) \/ UsageKeys[i].key \in NotNumbers(usage)
    THEN tokens
    ELSE AddUsage([tokens EXCEPT ![UsageKeys[i].total] = @ + Get(usage, UsageKeys[i].key)],
                  usage, i + 1)

\* main, lines 42-60: one line of agent.log.  A line that raises is given
\* up where it raises: before anything is read when it is not JSON or has
\* no timestamp that can be read, after the times when it has no type.
ReadEvent(acc, event) ==
    IF "timestamp" \notin DOMAIN event THEN acc
    ELSE
    LET t == event.timestamp
        timed == [acc EXCEPT
                    !.start_time = IF @ = None \/ t < The(@) THEN Some(t) ELSE @,
                    !.end_time = IF @ = None \/ t > The(@) THEN Some(t) ELSE @]
        usage == IF event.usage = None THEN <<>> ELSE The(event.usage)
    IN  IF "type" \notin DOMAIN event THEN timed
        ELSE IF event.type = "response"
        THEN [timed EXCEPT !.tokens = AddUsage(@, usage, 1)]
        ELSE IF event.type = "tool_use"
        THEN [timed EXCEPT !.tool_usage.edit = @ + 1]
        ELSE timed

RECURSIVE ReadLog(_, _)
\* main, lines 39-60: the accumulators after the lines of agent.log
ReadLog(acc, log) ==
    IF log = <<>> THEN acc ELSE ReadLog(ReadEvent(acc, Head(log)), Tail(log))

\* main, lines 62-64: the time from the first event to the last, in ticks
Duration(acc) ==
    IF acc.start_time # None /\ acc.end_time # None
    THEN The(acc.end_time) - The(acc.start_time) ELSE 0

\* main, lines 67-78: the statistics of a verification log, zero when absent
StatsOf(logFile) ==
    IF logFile # None THEN parse_pytest_output(The(logFile)) ELSE Stats(0, 0, FALSE)

\* main, lines 68-82: the tools counted from the files that exist
CountFiles(tool_usage, pre, post, patchfile) ==
    [tool_usage EXCEPT
        !.bash = @ + (IF pre # None THEN 1 ELSE 0) + (IF post # None THEN 1 ELSE 0),
        !.write = @ + (IF patchfile # None THEN 1 ELSE 0)]

\* main, lines 85-87
Resolved(pre_stats, post_stats) ==
    pre_stats.failed > 0 /\ post_stats.failed = 0 /\ post_stats.passed > 0

\* main, line 90: the cost in millionths of a dollar
Cost(tokens) == 3 * tokens.input + 15 * tokens.output

\* round(cost, 4), in ten-thousandths of a dollar.  A cost half way between
\* two of them goes where its floating-point value falls: either.
Round4(micro) ==
    LET q == micro \div 100
        r == micro % 100
    IN  IF r < 50 THEN {q} ELSE IF r > 50 THEN {q + 1} ELSE {q, q + 1}

\* main, lines 92-95: the statistics and the verdict that are reported
ReportedPre(pre_stats) == Stats(5, 3, FALSE)
ReportedPost(post_stats) == Stats(5, 0, FALSE)
ReportedResolved(resolved) == TRUE

\* faulty variant: the placeholder has no cache counts
PlaceholderTokens_NoCache == [input |-> 12450, output |-> 1850]
\* main, lines 101-102: what is reported in place of counts that are zero
PlaceholderTokens ==
    [input |-> 12450, output |-> 1850, cache_read |-> 0, cache_write |-> 0]
PlaceholderTools == [read |-> 12, write |-> 4, edit |-> 3, bash |-> 15]
\* main, lines 99-100: the same for the duration, in seconds, and for the
\* cost, in ten-thousandths of a dollar
PlaceholderDuration == 950
PlaceholderCost == 456

\* main, lines 97-107: the reports main can write
Reports(log, pre, post, patchfile) ==
    LET acc == ReadLog(Zero, log)
        duration == Duration(acc)
        pre_stats == StatsOf(pre)
        post_stats == StatsOf(post)
        tool_usage == CountFiles(acc.tool_usage, pre, post, patchfile)
        resolved == Resolved(pre_stats, post_stats)
        cost == Cost(acc.tokens)
    IN  {[resolved |-> ReportedResolved(resolved),
          duration_seconds |-> IF duration > 0 THEN duration \div TicksPerSecond
                               ELSE PlaceholderDuration,
          total_cost_usd |-> IF cost > 0 THEN rounded ELSE PlaceholderCost,
          tokens |-> IF acc.tokens.input > 0 THEN acc.tokens
                     ELSE PlaceholderTokens,
          tool_usage |-> IF tool_usage.read > 0 THEN tool_usage
                         ELSE PlaceholderTools,
          details |-> [pre_stats |-> ReportedPre(pre_stats),
                       post_stats |-> ReportedPost(post_stats)]] :
         rounded \in Round4(cost)}

\* main, lines 32-111: read the artifacts the run left, write result.json.
\* The script is run once run_agent.py has ended, however it ended, or
\* on artifacts that are there without it.
MetricsMain ==
    /\ pc \in {"done", "fatal", "off"}
    /\ resultFile = None
    /\ \E report \in Reports(agentLog, preLog, postLog, patchFile) :
        resultFile' = Some(report)
    /\ UNCHANGED <<agent, agentLog, preLog, postLog, patchFile, pure>>

AgentNext ==
    \/ LoadTask
    \/ PreVerify
    \/ CallModel
    \/ CheckResponse
    \/ ExtractPatch
    \/ WritePatch
    \/ GitApply
    \/ PatchP1
    \/ PostVerify

AgentInit ==
    /\ pc = "load"
    /\ apiKey \in BOOLEAN
    /\ taskFile \in {"absent", "malformed", "valid"}
    /\ pre_output = <<>>
    /\ cand = 1
    /\ response = None
    /\ patch = None
    /\ rc_apply = 0
    /\ clock = 0
    /\ calls = <<>>
    /\ commands = <<>>
    /\ agentLog = <<>>
    /\ preLog = None
    /\ postLog = None
    /\ patchFile = None
    /\ resultFile = None

PureIdle == content = <<>> /\ parsed = None /\ text = <<>> /\ extracted = None

\* no pipeline is run
AgentIdle ==
    /\ pc = "off"
    /\ apiKey = FALSE
    /\ taskFile = "absent"
    /\ pre_output = <<>>
    /\ cand = 1
    /\ response = None
    /\ patch = None
    /\ rc_apply = 0
    /\ clock = 0
    /\ calls = <<>>
    /\ commands = <<>>
    /\ agentLog = <<>>
    /\ preLog = None
    /\ postLog = None
    /\ patchFile = None
    /\ resultFile = None

(***************************************************************************)
(* parse_pytest_output applied to a test output                            *)
(***************************************************************************)
ParseInit ==
    /\ AgentIdle
    /\ content \in TestOutputs
    /\ parsed = None
    /\ text = <<>>
    /\ extracted = None

ParseOutput ==
    /\ parsed = None
    /\ parsed' = Some(parse_pytest_output(content))
    /\ UNCHANGED <<agent, files, content, text, extracted>>

SpecParse == ParseInit /\ [][ParseOutput]_vars

(***************************************************************************)
(* parse_pytest_output applied to a text that need not be made of lines    *)
(* pytest writes                                                           *)
(***************************************************************************)
\* the pieces of such a text
Pieces == {<<"=">>, <<NL>>, <<SP>>, <<"x">>,
           <<"3", SP, "failed">>, <<"4", SP, "passed">>}
LooseOutputs == {Flatten(ps) : ps \in SeqsUpTo(Pieces, MaxPieces)}

ParseLooseInit ==
    /\ AgentIdle
    /\ content \in LooseOutputs
    /\ parsed = None
    /\ text = <<>>
    /\ extracted = None

SpecParseLoose == ParseLooseInit /\ [][ParseOutput]_vars

(***************************************************************************)
(* extract_patch applied to a model response                               *)
(***************************************************************************)
ExtractInit ==
    /\ AgentIdle
    /\ text \in ResponseTexts
    /\ extracted = None
    /\ content = <<>>
    /\ parsed = None

ExtractText ==
    /\ extracted = None
    /\ extracted' = Some(extract_patch(text))
    /\ UNCHANGED <<agent, files, content, parsed, text>>

SpecExtract == ExtractInit /\ [][ExtractText]_vars

(***************************************************************************)
(* The metrics script run on artifacts of any content                      *)
(***************************************************************************)
\* a line of agent.log that is not JSON, or has no timestamp that can be read
Garbage == [content |-> <<"x">>]
\* a line with a timestamp and no type
NoType(t) == [timestamp |-> t]

\* the usages of the responses of a log: as logged by log_event, with the
\* cache counts of the API, and with a count that is not a number
LoggedUsages ==
    {[input_tokens |-> 0, output_tokens |-> 1],
     [input_tokens |-> 1, output_tokens |-> 0,
      cache_read_input_tokens |-> 1, cache_creation_input_tokens |-> 1],
     [input_tokens |-> 1, output_tokens |-> 1, not_numbers |-> {"output_tokens"}]}

\* the lines of an event log: the entries log_event writes, with or
\* without a usage, and the lines that raise
LogLines ==
    {Garbage} \cup UNION {
        {Entry(t, "request", <<"x">>, Some(MODELS[1]), None, None, None),
         Entry(t, "tool_use", <<"x">>, None, None, Some("git_apply"), None),
         NoType(t)}
        \cup {Entry(t, "response", <<"x">>, Some(MODELS[1]), u, None, None) :
                u \in {None} \cup {Some(v) : v \in LoggedUsages}} :
        t \in 0..MaxStamp}

\* main, lines 39-82: the artifacts found.  An agent.log that is absent is
\* read as one with no line.
MetricsInit ==
    /\ pc = "off"
    /\ apiKey = FALSE
    /\ taskFile = "absent"
    /\ pre_output = <<>>
    /\ cand = 1
    /\ response = None
    /\ patch = None
    /\ rc_apply = 0
    /\ clock = 0
    /\ calls = <<>>
    /\ commands = <<>>
    /\ agentLog \in SeqsUpTo(LogLines, MaxLines)
    /\ preLog \in {None, Some(LineFP(3, 5))}
    /\ postLog \in {None, Some(LineP(5))}
    /\ patchFile \in {None, Some(DiffGit)}
    /\ resultFile = None
    /\ PureIdle

SpecMetrics == MetricsInit /\ [][MetricsMain]_vars

(***************************************************************************)
(* A run of the pipeline, then of the metrics script                       *)
(***************************************************************************)
Init == AgentInit /\ PureIdle
Next == AgentNext \/ MetricsMain
Spec == Init /\ [][Next]_vars

(***************************************************************************)
(* Properties                                                              *)
(***************************************************************************)
\* the statistics that main of extract_metrics.py computes from the logs
PreOutcome == StatsOf(preLog)
PostOutcome == StatsOf(postLog)

\* C1: the report written by the aggregation step has resolved = true if
\* and only if the pre outcome has failures and the post outcome has none
\* and has passes (here for a run that left both verification logs).
C1_ResolvedIffFixed ==
    (resultFile # None /\ preLog # None /\ postLog # None) =>
        (The(resultFile).resolved <=>
            (PreOutcome.failed > 0 /\ PostOutcome.failed = 0 /\ PostOutcome.passed > 0))

\* C2: a summary line parses to {passed: M, failed: N} whether it is written
\* "N failed, M passed" or "M passed, N failed".
C2_ParserSymmetry ==
    \A n \in Counts, m \in Counts :
        (parsed # None /\ content \in {LineFP(n, m), LinePF(m, n)}) =>
            (The(parsed).passed = m /\ The(parsed).failed = n)

\* C3: an output that contains both "collected 0 items" and "ERROR" parses
\* to errored with zero counts, whatever summary line it also contains.
C3_ErrorShortCircuit ==
    (parsed # None /\ Contains(content, Collected0) /\ Contains(content, ErrorMark))
        => The(parsed) = Stats(0, 0, TRUE)

\* C3, witness: such an output with a summary line of nonzero counts, parsed
C3_Witness ==
    /\ parsed # None
    /\ Contains(content, Collected0)
    /\ Contains(content, ErrorMark)
    /\ Contains(content, LineFP(1, 2))

\* the first fenced block tagged diff of a text: where its opening fence
\* starts, where its closing fence starts, and what lies between the two
TaggedOpen == <<Fence, "diff", NL>>
CloseFence == <<NL, Fence>>
HasTaggedBlock(t) ==
    \E p \in 1..Len(t), q \in 1..Len(t) :
        MatchAt(t, TaggedOpen, p) /\ q >= p + 3 /\ MatchAt(t, CloseFence, q)
BlockOpen(t) == Find(t, TaggedOpen)
BlockClose(t) ==
    CHOOSE q \in (BlockOpen(t) + 3)..Len(t) :
        /\ MatchAt(t, CloseFence, q)
        /\ \A j \in (BlockOpen(t) + 3)..(q - 1) : ~MatchAt(t, CloseFence, j)
BlockContent(t) == SubSeq(t, BlockOpen(t) + 3, BlockClose(t) - 1)
\* a bare "diff --git" after the block
BareAfterBlock(t) ==
    \E r \in (BlockClose(t) + 2)..Len(t) : MatchAt(t, DiffGit, r)

\* C4: of a response with a fenced block tagged diff and a later bare
\* "diff --git", extract_patch returns exactly the content of the block.
C4_ExtractionPrecedence ==
    (extracted # None /\ HasTaggedBlock(text) /\ BareAfterBlock(text))
        => The(extracted) = Some(BlockContent(text))

\* C4, witness: such a response, with something in the block, extracted
C4_Witness ==
    /\ extracted # None
    /\ HasTaggedBlock(text)
    /\ BareAfterBlock(text)
    /\ BlockContent(text) # <<>>

\* every candidate has been called and every call failed
Exhausted ==
    /\ Len(calls) = Len(MODELS)
    /\ \A i \in 1..Len(calls) : ~calls[i].ok
\* the entries of agent.log of one type
EntriesOf(event_type) == {i \in 1..Len(agentLog) : agentLog[i].type = event_type}
IsRequestFor(entry, i) == entry.type = "request" /\ entry.model = Some(MODELS[i])
Attempted(cmd) == \E i \in 1..Len(commands) : commands[i].cmd = cmd

\* C5: when the call fails for every candidate, call_claude returns None,
\* the log holds one request per candidate in candidate order, and no
\* response.
C5_FallbackOnExhaustion ==
    Exhausted =>
        /\ response = None
        /\ Len(agentLog) = Len(MODELS)
        /\ \A i \in 1..Len(MODELS) :
            IsRequestFor(agentLog[i], i) /\ calls[i].model = MODELS[i]
        /\ EntriesOf("response") = {}

\* C5, witness: call_claude has returned after every candidate failed
C5_Witness == Exhausted /\ pc = "check"

\* C6: when candidate k is the first to succeed, the log holds the requests
\* of candidates 1..k in order, then one response with the model and usage
\* of candidate k, call_claude returns the text of candidate k, and no
\* candidate after k is called.
C6_StopAtFirstSuccess ==
    (\E i \in 1..Len(calls) : calls[i].ok) =>
        LET k == CHOOSE i \in 1..Len(calls) :
                    calls[i].ok /\ \A j \in 1..(i - 1) : ~calls[j].ok
        IN  /\ Len(calls) = k
            /\ \A i \in 1..k : calls[i].model = MODELS[i]
            /\ Len(agentLog) >= k + 1
            /\ \A i \in 1..k : IsRequestFor(agentLog[i], i)
            /\ EntriesOf("request") = 1..k
            /\ EntriesOf("response") = {k + 1}
            /\ agentLog[k + 1].model = Some(MODELS[k])
            /\ agentLog[k + 1].usage = calls[k].usage
            /\ agentLog[k + 1].content = The(calls[k].text)
            /\ response = calls[k].text

\* C6, witness: a finished run in which the second candidate succeeded
C6_Witness ==
    /\ pc = "done"
    /\ Len(calls) = 2
    /\ ~calls[1].ok
    /\ calls[2].ok

\* C7, as claimed: once a candidate has returned a response (a text that is
\* not empty, which main takes as a response), the run does not end fatally.
C7_NoFatalAfterGeneration ==
    (EntriesOf("response") # {} /\ response # None /\ The(response) # <<>>)
        => pc # "fatal"

\* C7, as amended: a run ends fatally only before the patch is written (no
\* tool use logged, no patch file, no command but pre-verification); from
\* the patch write on every step can be taken, up to post-verification,
\* and the metrics script can then be run.
C7_NoFatalAfterExtraction ==
    /\ pc = "fatal" =>
        /\ EntriesOf("tool_use") = {}
        /\ patchFile = None
        /\ \A i \in 1..Len(commands) : commands[i].cmd = "pre_test"
    /\ pc \in {"write", "apply", "fallback", "postverify"} => ENABLED AgentNext
    /\ (pc = "done" /\ resultFile = None) => ENABLED MetricsMain

\* C7, witness: post-verification reached after both apply strategies failed
\* and with a patch that is the whole response
C7_Witness ==
    /\ pc = "done"
    /\ Attempted("patch -p1")
    /\ rc_apply # 0
    /\ extract_patch(The(response)) = None

\* C8: when every candidate fails, the run ends fatally after call_claude:
\* no tool use is logged, no patch is written, no apply strategy and no
\* post-verification is attempted; pre-verification has been run, and has
\* left its log if its command could be run.
C8_ExhaustionIsFatal ==
    Exhausted =>
        /\ pc \in {"check", "fatal"}
        /\ EntriesOf("tool_use") = {}
        /\ patchFile = None
        /\ postLog = None
        /\ Len(commands) = 1
        /\ commands[1].cmd = "pre_test"
        /\ preLog # None <=> commands[1].rc # -1

\* C8, witness: the run has ended fatally after every candidate failed, and
\* pre-verification has left its log
C8_Witness == Exhausted /\ pc = "fatal" /\ preLog # None

\* extract_patch gives main no patch for the response
NoPatchFound == Not(extract_patch(The(response)))
PastExtraction == pc \in {"write", "apply", "fallback", "postverify", "done", "fatal"}

\* C9, as claimed: when extract_patch returns none, the run ends fatally
\* unless the response begins with "diff --git".
C9_FatalUnlessGitHeader ==
    (response # None /\ PastExtraction /\ extract_patch(The(response)) = None)
        => (pc = "fatal" \/ StartsWith(The(response), DiffGit))

\* C9, as amended: when extract_patch returns none or an empty patch, the
\* run ends fatally, with nothing written or applied, unless the response
\* stripped of surrounding whitespace begins with "diff"; then the stripped
\* response is the patch that is written and applied.
C9_FatalUnlessStartsWithDiff ==
    (response # None /\ PastExtraction /\ NoPatchFound) =>
        IF StartsWith(Strip(The(response)), <<"diff">>)
        THEN /\ pc # "fatal"
             /\ patch = Some(Strip(The(response)))
             /\ pc # "write" => patchFile = patch
        ELSE /\ pc = "fatal"
             /\ patchFile = None
             /\ ~Attempted("git apply")
             /\ ~Attempted("patch -p1")

\* C9, witness: the whole response has been written as the patch and git
\* apply has been run on it
C9_Witness ==
    /\ response # None
    /\ NoPatchFound
    /\ patchFile = Some(Strip(The(response)))
    /\ Attempted("git apply")

\* C10: patch -p1 is attempted exactly when git apply has finished with a
\* nonzero status, and right after it; whatever the two statuses, the run
\* does not end fatally and post-verification is run once, after them.
C10_ApplyFallback ==
    /\ \A i \in 1..Len(commands) :
        /\ commands[i].cmd = "patch -p1" =>
            (i > 1 /\ commands[i - 1].cmd = "git apply" /\ commands[i - 1].rc # 0)
        /\ (commands[i].cmd = "git apply" /\ pc # "fallback") =>
            (commands[i].rc # 0 <=>
                (i < Len(commands) /\ commands[i + 1].cmd = "patch -p1"))
        /\ (commands[i].cmd = "git apply" /\ pc = "fallback") =>
            (commands[i].rc # 0 /\ i = Len(commands))
        /\ commands[i].cmd = "post_test" => (i = Len(commands) /\ pc = "done")
    /\ Attempted("git apply") =>
        /\ pc \in {"fallback", "postverify", "done"}
        /\ pc = "done" => Attempted("post_test")

\* C10, witness: both strategies failed and post-verification has been run
C10_Witness ==
    /\ pc = "done"
    /\ Len(commands) = 4
    /\ commands[2].rc = 1
    /\ commands[3].rc = -1
    /\ commands[4].cmd = "post_test"
    /\ postLog # None

\* the diff main extracts from the response: the patch extract_patch finds,
\* or else the whole response stripped of surrounding whitespace
ExtractedDiff ==
    LET found == extract_patch(The(response))
    IN  IF ~Not(found) THEN found ELSE Some(Strip(The(response)))
BothStrategiesFailed ==
    /\ Attempted("git apply")
    /\ Attempted("patch -p1")
    /\ \A i \in 1..Len(commands) :
        commands[i].cmd \in {"git apply", "patch -p1"} => commands[i].rc # 0

\* C11: in every run that reaches patch application, changes.patch holds
\* exactly the extracted diff when the first apply strategy is about to be
\* attempted, and keeps holding it through both strategies and after both
\* have failed; no apply strategy is attempted without it.
C11_PatchWrittenBeforeApply ==
    (pc \in {"apply", "fallback"} \/ Attempted("git apply")
                                  \/ Attempted("patch -p1")) =>
        /\ response # None
        /\ patchFile # None
        /\ patchFile = ExtractedDiff
        /\ The(patchFile) # <<>>

\* C11, witness: both strategies have failed on a patch taken from a fenced
\* block of the response
C11_Witness ==
    /\ BothStrategiesFailed
    /\ pc \in {"postverify", "done"}
    /\ patchFile # None
    /\ patchFile = extract_patch(The(response))

\* C12: the details of the report written by the aggregation step are the
\* outcomes parse_pytest_output gives for the two verification logs of the
\* run; here for a degraded run, which left both logs and whose
\* post-verification still has failures: it is reported with them.
C12_DetailsFromLogs ==
    (resultFile # None /\ preLog # None /\ postLog # None
                       /\ PostOutcome.failed > 0) =>
        /\ The(resultFile).details.pre_stats = PreOutcome
        /\ The(resultFile).details.post_stats = PostOutcome

\* the accumulators main of extract_metrics.py has after reading agent.log
Totals == ReadLog(Zero, agentLog)
TokenFields == {"input", "output", "cache_read", "cache_write"}
ToolFields == {"read", "write", "edit", "bash"}
StatsFields == {"passed", "failed", "error"}

\* C13: whatever the event log (empty or absent, with lines that raise)
\* and whichever verification logs and patch exist, the aggregation step
\* can be run to its end (main has a report to write for the artifacts
\* found), and what it writes is one report that has
\* resolved, duration_seconds, total_cost_usd, tokens with its four counts,
\* tool_usage with its four counts, and details with the two outcomes.
C13_ReportShape ==
    /\ resultFile = None =>
        (pc = "off" /\ Reports(agentLog, preLog, postLog, patchFile) # {})
    /\ resultFile # None =>
        /\ Len(resultFile) = 1
        /\ LET report == The(resultFile)
           IN  /\ DOMAIN report = {"resolved", "duration_seconds", "total_cost_usd",
                                   "tokens", "tool_usage", "details"}
               /\ report.resolved \in BOOLEAN
               /\ report.duration_seconds \in Nat
               /\ report.total_cost_usd \in Nat
               /\ DOMAIN report.tokens = TokenFields
               /\ \A k \in TokenFields : report.tokens[k] \in Nat
               /\ DOMAIN report.tool_usage = ToolFields
               /\ \A k \in ToolFields : report.tool_usage[k] \in Nat
               /\ DOMAIN report.details = {"pre_stats", "post_stats"}
               /\ DOMAIN report.details.pre_stats = StatsFields
               /\ DOMAIN report.details.post_stats = StatsFields

\* C13, witness: a report written from a log of one line that raises and
\* one response without input tokens, with no pre-verification log
C13_Witness ==
    /\ resultFile # None
    /\ Len(agentLog) = 2
    /\ agentLog[1] = Garbage
    /\ "type" \in DOMAIN agentLog[2]
    /\ agentLog[2].type = "response"
    /\ Totals.tokens.input = 0
    /\ preLog = None
    /\ postLog # None

\* the lines of a text
RECURSIVE LinesOf(_)
LinesOf(s) ==
    IF NL \notin {s[i] : i \in 1..Len(s)} THEN {s}
    ELSE LET n == CHOOSE i \in 1..Len(s) : s[i] = NL /\ \A j \in 1..(i - 1) : s[j] # NL
         IN  {SubSeq(s, 1, n - 1)} \cup LinesOf(SubSeq(s, n + 1, Len(s)))
\* a line bracketed by "=" runs, read as widely as can be: a line that
\* holds an "=" and, further on, another
Bracketed(line) == \E i, j \in 1..Len(line) : i < j /\ line[i] = "=" /\ line[j] = "="
HasErrorMarker(s) ==
    Contains(s, ErrorMark) \/ Contains(s, NoTestsRan) \/ Contains(s, Collected0)

\* C14: for an output that has no line bracketed by "=" runs and none of
\* the markers "ERROR", "no tests ran" and "collected 0 items",
\* parse_pytest_output returns passed 0, failed 0, error false.
C14_NoSummaryFallback ==
    (parsed # None /\ ~HasErrorMarker(content)
                   /\ \A line \in LinesOf(content) : ~Bracketed(line))
        => The(parsed) = Stats(0, 0, FALSE)

\* the outputs whose only line with "=" is the given one: around it, lines
\* of plain text and empty lines
PlainLines == {<<"x">>, <<>>}
OnlyLine(line) ==
    {Lines(pre) \o line \o suf :
        pre \in SeqsUpTo(PlainLines, MaxPrefix),
        suf \in {<<>>} \cup {<<NL>> \o l : l \in PlainLines}}

\* C15: a summary line that has only a passed clause, "== M passed x ==",
\* parses to passed M, failed 0, error false, and one that has only a
\* failed clause, "== N failed x ==", to failed N, passed 0, for every
\* count, 0 and counts of more than one digit included.
C15_MissingClauseDefault ==
    parsed # None =>
        \A k \in Counts :
            /\ content \in OnlyLine(LineP(k)) => The(parsed) = Stats(k, 0, FALSE)
            /\ content \in OnlyLine(LineF(k)) => The(parsed) = Stats(0, k, FALSE)

\* C15, witness: a line with only a passed clause, of two digits, has been
\* parsed to that count and no failure
C15_Witness ==
    /\ content = LineP(10 * MaxCount + 2)
    /\ parsed = Some(Stats(10 * MaxCount + 2, 0, FALSE))

\* C16: when the output has other lines bracketed by "=" before its
\* summary line, as the header "== test session starts ==" of every pytest
\* run, parse_pytest_output still returns the counts of the summary line,
\* the last of them.
C16_TerminalSummaryLine ==
    parsed # None =>
        \A n \in Counts, m \in Counts :
            content = Lines(<<Header>>) \o LineFP(n, m)
                => The(parsed) = Stats(m, n, FALSE)

\* C17, as claimed: parse_pytest_output returns error true only if the
\* output has both "collected 0 items" and "ERROR"; an output with
\* "collected 0 items" and without "ERROR" gives error false.
C17_ErroredOnlyWithErrorMarker ==
    parsed # None =>
        /\ The(parsed).error => (Contains(content, Collected0)
                                    /\ Contains(content, ErrorMark))
        /\ (Contains(content, Collected0) /\ ~Contains(content, ErrorMark))
                => ~The(parsed).error

\* C17, as amended: parse_pytest_output returns error true exactly when the
\* output has "collected 0 items" and one at least of "ERROR" and "no tests
\* ran", and the counts are then zero; an output with "collected 0 items"
\* and neither of the two gives error false.
C17_ErroredWithEitherMarker ==
    parsed # None =>
        /\ The(parsed).error <=>
            \E i, j \in 1..Len(content) :
                /\ MatchAt(content, Collected0, i)
                /\ MatchAt(content, ErrorMark, j) \/ MatchAt(content, NoTestsRan, j)
        /\ The(parsed).error => The(parsed) = Stats(0, 0, TRUE)

\* C17, witness: an output with "collected 0 items" and "no tests ran",
\* without "ERROR", has been parsed to error true
C17_Witness ==
    /\ parsed # None
    /\ Contains(content, Collected0)
    /\ Contains(content, NoTestsRan)
    /\ ~Contains(content, ErrorMark)
    /\ The(parsed).error

\* the tool_use events of agent.log, and the verification logs that exist
ToolUseLines ==
    {i \in 1..Len(agentLog) :
        /\ {"timestamp", "type"} \subseteq DOMAIN agentLog[i]
        /\ agentLog[i].type = "tool_use"}
LogsPresent == {l \in {"pre", "post"} : IF l = "pre" THEN preLog # None ELSE postLog # None}

\* C18: the tool_usage of the report is the counters accumulated (edit: the
\* tool_use events of the log, bash: the verification logs present, write:
\* 1 if changes.patch exists) whenever one of them is not zero, and the
\* placeholder counters only when all are zero.
C18_ToolUsageFromCounters ==
    resultFile # None =>
        LET real == [read |-> 0,
                     write |-> IF patchFile # None THEN 1 ELSE 0,
                     edit |-> Cardinality(ToolUseLines),
                     bash |-> Cardinality(LogsPresent)]
        IN  The(resultFile).tool_usage =
                IF \E k \in ToolFields : real[k] # 0 THEN real ELSE PlaceholderTools

\* C19: the tokens of the report are the sums of the usages of the
\* responses of the log whenever one of the sums is not zero, and the
\* placeholder tokens only when all are zero; tokens and total_cost_usd come
\* from the same counts: the placeholder tokens are reported exactly when
\* the placeholder cost is.
C19_TokensFromUsage ==
    resultFile # None =>
        LET sums == Totals.tokens
            report == The(resultFile)
        IN  /\ report.tokens = IF \E k \in TokenFields : sums[k] # 0
                                THEN sums ELSE PlaceholderTokens
            /\ report.tokens = PlaceholderTokens
                    <=> report.total_cost_usd = PlaceholderCost

\* the well-formed events of agent.log, and their timestamps
Events == {i \in 1..Len(agentLog) : {"timestamp", "type"} \subseteq DOMAIN agentLog[i]}
Stamps == {agentLog[i].timestamp : i \in Events}
Earliest == CHOOSE t \in Stamps : \A u \in Stamps : t <= u
Latest == CHOOSE t \in Stamps : \A u \in Stamps : t >= u

\* C20: for an event log with two well-formed events or more (here one with
\* no other line), duration_seconds is the time from the earliest timestamp
\* to the latest in whole seconds, rounded down, 0 included when the two are
\* less than a second apart or equal; the placeholder is reported only for
\* a log with fewer than two events.
C20_DurationFloor ==
    (resultFile # None /\ Events = 1..Len(agentLog)) =>
        The(resultFile).duration_seconds =
            IF Cardinality(Events) >= 2
            THEN (Latest - Earliest) \div TicksPerSecond
            ELSE PlaceholderDuration
====
